---- MODULE Spec2Model ----
(***************************************************************************)
(* A model of src/build_db.py: the script that merges the chunk files of  *)
(* ../chunks/ into one table, validates it, exports it, runs the external  *)
(* CDR3 fixer on the export and writes the final database.                 *)
(*                                                                         *)
(* A cell of a table is a tuple of symbols.  The cells the script matches  *)
(* against a regular expression (record.id, complex.id, cdr3, antigen)     *)
(* are spelled character by character; every other text cell is a tuple    *)
(* of one symbol, and the three flags of the fixer are booleans.           *)
(***************************************************************************)
EXTENDS Naturals, Sequences, FiniteSets, TLC

VARIABLES
  chunks,         \* the chunk files, in the order os.listdir returned them
  pc,             \* the statement the script is at
  file_i,         \* how many chunk files the merge loop has consumed
  df,             \* the data frame: a sequence of [index, row]
  bad_records,    \* record id -> messages
  groups,         \* the keys df.groupby('complex.id') iterates, sorted
  group_i,        \* how many groups the complex loop has consumed
  bad_complexes,  \* complex id -> messages
  row_i,          \* how many rows the current row loop has consumed
  unfixed_cdr3,   \* the rows the fixer left ambiguous
  fs,             \* ../database/: file name -> written table
  stderr,         \* what was printed to the error stream, <<>> if nothing
  status,         \* "running", "exit0", "exit1" or "exception"
  log             \* the stages of the script that ran, in order

vars == <<chunks, pc, file_i, df, bad_records, groups, group_i, bad_complexes,
          row_i, unfixed_cdr3, fs, stderr, status, log>>

(***************************************************************************)
(* Bounds of the model.                                                    *)
(***************************************************************************)
MaxChunks == 2
MaxRows == 3

Range(s) == {s[k] : k \in DOMAIN s}

(***************************************************************************)
(* Module-level constants of the script.                                   *)
(***************************************************************************)
required_columns ==
  <<"complex.id", "cdr3", "v.segm", "j.segm", "gene", "species",
    "mhc.a", "mhc.b", "mhc.type", "antigen", "antigen.gene",
    "antigen.species", "method", "reference", "reference.id">>

index_column == "record.id"

allowed_mhcs == {<<"MHCI">>, <<"MHCII">>}
allowed_genes == {<<"TRA">>, <<"TRB">>}
allowed_species ==
  {<<"HomoSapiens">>, <<"MusMusculus">>, <<"RattusNorvegicus">>, <<"MacacaMulatta">>}

complex_match_cols ==
  <<"species", "mhc.a", "mhc.b", "mhc.type", "antigen", "antigen.gene",
    "antigen.species", "method", "reference", "reference.id">>

reserved_complex ==
  <<"V", "D", "J", "D", "B", "C", "0", "0", "0", "0", "0", "0", "0", "0">>

fix_columns ==
  <<"fixed.cdr3", "closest.v.id", "closest.j.id", "v.canonical", "j.canonical",
    "v.fix.type", "j.fix.type">>

\* The columns of the fixer that read_table reads as booleans.
flag_columns == {"good", "v.canonical", "j.canonical"}

raw_txt == "vdjdb_raw.txt"
fixed_txt == "vdjdb_fixed.txt"
final_txt == "vdjdb.txt"

(***************************************************************************)
(* Regular expressions.  re.match anchors at the start; "$" matches at the *)
(* end of the string and also just before a newline that ends the string.  *)
(***************************************************************************)
Digits == {"0", "1", "2", "3", "4", "5", "6", "7", "8", "9"}
AminoAcids ==
  <<"A", "R", "N", "D", "C", "E", "Q", "G", "H", "I", "L", "K", "M", "F", "P",
    "S", "T", "W", "Y", "V">>

Chomp(s) ==
  IF Len(s) > 0 /\ s[Len(s)] = "\n" THEN SubSeq(s, 1, Len(s) - 1) ELSE s

PrefixDigits8(prefix, s) ==
  /\ Len(s) = Len(prefix) + 8
  /\ SubSeq(s, 1, Len(prefix)) = prefix
  /\ \A k \in (Len(prefix) + 1)..Len(s) : s[k] \in Digits

RecordIdBody(s) == PrefixDigits8(<<"V", "D", "J", "D", "B", "R">>, s)
ComplexIdBody(s) == PrefixDigits8(<<"V", "D", "J", "D", "B", "C">>, s)
AminoBody(s) == Len(s) >= 1 /\ \A k \in 1..Len(s) : s[k] \in Range(AminoAcids)

record_id_pattern(s) == RecordIdBody(s) \/ RecordIdBody(Chomp(s))
complex_id_pattern(s) == ComplexIdBody(s) \/ ComplexIdBody(Chomp(s))
aa_pattern(s) == AminoBody(s) \/ AminoBody(Chomp(s))

(***************************************************************************)
(* The order of str: by code point, character by character.                *)
(***************************************************************************)
CodeOrder ==
  <<"\n", "0", "1", "2", "3", "4", "5", "6", "7", "8", "9",
    "A", "B", "C", "D", "E", "F", "G", "H", "I", "J", "K", "L", "M", "N", "O",
    "P", "Q", "R", "S", "T", "U", "V", "W", "X", "Y", "Z", "g">>

Ord(c) == CHOOSE k \in DOMAIN CodeOrder : CodeOrder[k] = c

StrLess(s, t) ==
  \/ Len(s) < Len(t) /\ SubSeq(t, 1, Len(s)) = s
  \/ \E k \in 1..Len(s) :
       /\ k <= Len(t)
       /\ SubSeq(s, 1, k - 1) = SubSeq(t, 1, k - 1)
       /\ Ord(s[k]) < Ord(t[k])

RECURSIVE SortedKeys(_)
SortedKeys(S) ==
  IF S = {} THEN <<>>
  ELSE LET m == CHOOSE x \in S : \A y \in S \ {x} : StrLess(x, y)
       IN <<m>> \o SortedKeys(S \ {m})

(***************************************************************************)
(* The chunk files the model reads.  Row k of an input is, by default, a   *)
(* valid unpaired record with its own record id and its own cdr3; an input *)
(* departs from that by the complex ids of its rows, by the edits below,   *)
(* by how the rows are cut into files and by the header of each file.      *)
(***************************************************************************)
DigitChars == <<"1", "2", "3", "4", "5", "6", "7", "8", "9">>

RecordId(k) ==
  <<"V", "D", "J", "D", "B", "R", "0", "0", "0", "0", "0", "0", "0">> \o <<DigitChars[k]>>
ShortRecordId(k) ==
  <<"V", "D", "J", "D", "B", "R", "0", "0", "0", "0", "0", "0">> \o <<DigitChars[k]>>
ComplexId(k) ==
  <<"V", "D", "J", "D", "B", "C", "0", "0", "0", "0", "0", "0", "0">> \o <<DigitChars[k]>>
Cdr3Of(k) == <<"C", "A", "S", "S">> \o <<AminoAcids[k]>>

ComplexChoices == {reserved_complex, ComplexId(1), ComplexId(2)}

AllColumns == {index_column} \cup Range(required_columns)

BaseRecord(k) ==
  [c \in AllColumns |->
     CASE c = index_column -> RecordId(k)
       [] c = "complex.id" -> reserved_complex
       [] c = "cdr3" -> Cdr3Of(k)
       [] c = "v.segm" -> <<"TRBV7-9">>
       [] c = "j.segm" -> <<"TRBJ2-1">>
       [] c = "gene" -> <<"TRA">>
       [] c = "species" -> <<"HomoSapiens">>
       [] c = "mhc.a" -> <<"HLA-A*02">>
       [] c = "mhc.b" -> <<"B2M">>
       [] c = "mhc.type" -> <<"MHCI">>
       [] c = "antigen" -> <<"G", "I", "L">>
       [] c = "antigen.gene" -> <<"M1">>
       [] c = "antigen.species" -> <<"InfluenzaA">>
       [] c = "method" -> <<"tetramer">>
       [] c = "reference" -> <<"PMID">>
       [] c = "reference.id" -> <<"12345">>]

\* The edits of row k: each replaces the cells it names.
Edits(k) ==
  << index_column :> ShortRecordId(k),
     index_column :> RecordId(1),
     "complex.id" :> <<"C", "1">>,
     "cdr3" :> <<>>,
     "cdr3" :> <<"C", "A", "S", "S", "L", "X", "1">>,
     "cdr3" :> Cdr3Of(1),
     "v.segm" :> <<"TRAV1">>,
     "j.segm" :> <<"TRAJ1">>,
     "gene" :> <<"TRB">>,
     "gene" :> <<"TRG">>,
     "species" :> <<"MusMusculus">>,
     "species" :> <<"RattusNorvegicus">>,
     "species" :> <<"MacacaMulatta">>,
     "species" :> <<"Alien">>,
     "mhc.a" :> <<"HLA-B*07">>,
     "mhc.b" :> <<"HLA-DRB1">>,
     "mhc.type" :> <<"MHCII">>,
     "mhc.type" :> <<"MHCIII">>,
     "antigen" :> <<>>,
     "antigen" :> <<"g", "1">>,
     "antigen.gene" :> <<"BMLF1">>,
     "antigen.species" :> <<"EBV">>,
     "method" :> <<"sort">>,
     "reference" :> <<"URL">>,
     "reference.id" :> <<"67890">>,
     (index_column :> ShortRecordId(k)) @@ ("complex.id" :> <<"C", "1">>)
       @@ ("cdr3" :> <<"C", "A", "S", "S", "L", "X", "1">>)
       @@ ("antigen" :> <<"g", "1">>) @@ ("mhc.type" :> <<"MHCIII">>)
       @@ ("gene" :> <<"TRG">>) @@ ("species" :> <<"Alien">>) >>

\* The edits the second row may take beside an edit of the first.
SecondEdits ==
  << "cdr3" :> <<>>,
     "gene" :> <<"TRB">>,
     "species" :> <<"MusMusculus">>,
     "species" :> <<"Alien">>,
     "antigen" :> <<>> >>

Record(k, complex, edit) == edit @@ ("complex.id" :> complex) @@ BaseRecord(k)

\* A row of a data frame: the index value and the cells of the other columns.
AsRow(rec) ==
  [index |-> rec[index_column], row |-> [c \in DOMAIN rec \ {index_column} |-> rec[c]]]

\* The headers a chunk file may have.
Headers ==
  { [columns |-> Range(required_columns), index_name |-> index_column],
    [columns |-> Range(required_columns) \cup {"comment"}, index_name |-> index_column],
    [columns |-> Range(required_columns) \ {"antigen", "method"}, index_name |-> index_column],
    [columns |-> Range(required_columns), index_name |-> "foo"],
    [columns |-> Range(required_columns) \ {"cdr3"}, index_name |-> "foo"] }

GoodHeader == [columns |-> Range(required_columns), index_name |-> index_column]

\* Sequences of record numbers in which a number is 1 or follows its predecessor:
\* every way n rows can share record ids, up to the names of the ids.
IdSeqs(n) ==
  {s \in [1..n -> 1..n] :
     \A k \in 1..n : s[k] = 1 \/ \E j \in 1..(k - 1) : s[j] = s[k] - 1}

\* The ways to cut n rows, in order, into m files.
Cuts(n, m) ==
  {c \in [1..n -> 1..m] : \A k \in 1..n : \A j \in 1..(k - 1) : c[j] <= c[k]}

RECURSIVE Pick(_, _, _)
Pick(recs, cut, j) ==
  IF recs = <<>> THEN <<>>
  ELSE (IF Head(cut) = j THEN <<AsRow(Head(recs))>> ELSE <<>>)
         \o Pick(Tail(recs), Tail(cut), j)

MakeChunks(recs, cut, headers) ==
  [j \in DOMAIN headers |->
     [file |-> j,
      columns |-> headers[j].columns,
      index_name |-> headers[j].index_name,
      rows |-> Pick(recs, cut, j)]]

\* Inputs that vary the files: their number, their headers, the record ids.
FileInput(input) ==
  \E m \in 0..MaxChunks, n \in 0..MaxRows :
    \E ids \in IdSeqs(n), cut \in Cuts(n, m), headers \in [1..m -> Headers] :
      input = MakeChunks([k \in 1..n |-> Record(ids[k], reserved_complex, <<>>)], cut, headers)

\* Inputs that vary the rows: one well-formed file, any complex ids, and
\* no edit, one edited row, the same edit in every row, or an edit of the
\* first row beside a second edit of the second row.
RowInput(input) ==
  \E n \in 1..MaxRows :
    \E complexes \in [1..n -> ComplexChoices] :
      \/ input = MakeChunks([k \in 1..n |-> Record(k, complexes[k], <<>>)],
                            [k \in 1..n |-> 1], <<GoodHeader>>)
      \/ \E at \in 1..n, e \in DOMAIN Edits(1) :
           input = MakeChunks([k \in 1..n |->
                                 Record(k, complexes[k], IF k = at THEN Edits(k)[e] ELSE <<>>)],
                              [k \in 1..n |-> 1], <<GoodHeader>>)
      \/ \E e \in DOMAIN Edits(1) :
           input = MakeChunks([k \in 1..n |-> Record(k, complexes[k], Edits(k)[e])],
                              [k \in 1..n |-> 1], <<GoodHeader>>)
      \/ \E e1 \in DOMAIN Edits(1), e2 \in DOMAIN SecondEdits :
           /\ n >= 2
           /\ input = MakeChunks([k \in 1..n |->
                                    Record(k, complexes[k],
                                           IF k = 1 THEN Edits(k)[e1]
                                           ELSE IF k = 2 THEN SecondEdits[e2] ELSE <<>>)],
                                 [k \in 1..n |-> 1], <<GoodHeader>>)


(***************************************************************************)
(* pandas, as the script uses it.                                          *)
(***************************************************************************)
NaN == <<"<NaN>">>

\* The cells read_table turns into NaN unless keep_default_na=False.
DefaultNA == {<<>>, <<"N", "A">>, <<"NA">>, <<"N", "a", "N">>, <<"NaN">>}

\* pd.read_table(path + file, index_col=[0], na_values=[], keep_default_na=False)
read_chunk(chunk) == chunk.rows

\* A check that finds no column missing.
missing_cols_none(chunk) == <<>>

\* [x for x in required_columns if x not in chunk.columns.values]
missing_cols(chunk) == SelectSeq(required_columns, LAMBDA x : x \notin chunk.columns)

\* The index values that occur more than once in a frame.
Overlap(frame) ==
  {frame[a].index : a \in {a \in DOMAIN frame :
                             \E b \in DOMAIN frame : a # b /\ frame[a].index = frame[b].index}}

\* A merge that loses the last row of every chunk.
append_drops_last(frame, rows) ==
  frame \o (IF rows = <<>> THEN <<>> ELSE SubSeq(rows, 1, Len(rows) - 1))

\* df.append(chunk): the rows of chunk after the rows of df.
append(frame, rows) == frame \o rows

\* A check that only compares neighbouring rows.
verify_integrity_adjacent(frame) ==
  \A a \in DOMAIN frame : a + 1 \in DOMAIN frame => frame[a].index # frame[a + 1].index

\* verify_integrity=True: the index of the result has no value twice.
verify_integrity(frame) == Overlap(frame) = {}

\* An index that leaves complex.id, the first required column, out.
Composite_without_complex(r) ==
  [k \in 1..(Len(required_columns) - 1) |-> r.row[required_columns[k + 1]]]

\* df.set_index(required_columns).index: one tuple of cells per row.
Composite(r) == [k \in DOMAIN required_columns |-> r.row[required_columns[k]]]

\* Index.get_duplicates(): the values that occur more than once.
get_duplicates(frame) ==
  {Composite(frame[a]) : a \in {a \in DOMAIN frame :
                                  \E b \in DOMAIN frame :
                                    a # b /\ Composite(frame[a]) = Composite(frame[b])}}

\* df[cols].to_csv(path, sep='\t', na_rep='NA')
to_csv(frame, cols) ==
  [k \in DOMAIN frame |->
     [index |-> frame[k].index,
      row |-> [c \in Range(cols) |->
                 IF frame[k].row[c] = NaN THEN <<"N", "A">> ELSE frame[k].row[c]]]]

\* pd.read_table(path, sep='\t', index_col=[0]): the default NA cells become NaN.
read_table(file) ==
  [k \in DOMAIN file |->
     [index |-> file[k].index,
      row |-> [c \in DOMAIN file[k].row |->
                 IF c \in flag_columns THEN file[k].row[c]
                 ELSE IF file[k].row[c] \in DefaultNA THEN NaN ELSE file[k].row[c]]]]

\* df.groupby('complex.id'): the keys in sorted order, and the rows of a key.
group_keys(frame) == SortedKeys({frame[k].row["complex.id"] : k \in DOMAIN frame})
group_rows(frame, key) == SelectSeq(frame, LAMBDA r : r.row["complex.id"] = key)

\* d[key] = value
Put(d, key, value) == (key :> value) @@ d

(***************************************************************************)
(* The checks of one row and of one complex.                               *)
(***************************************************************************)
If(cond, message) == IF cond THEN <<message>> ELSE <<>>

\* A check of the antigen that does not let the empty antigen through.
row_messages_strict_antigen(index, row) ==
  If(~record_id_pattern(index), "Bad record identifier")
  \o If(~complex_id_pattern(row["complex.id"]), "Bad complex identifier")
  \o If(~aa_pattern(row["cdr3"]), "Bad CDR3 sequence")
  \o If(~aa_pattern(row["antigen"]), "Bad antigen sequence")
  \o If(row["mhc.type"] \notin allowed_mhcs, "MHC type should be in ['MHCI', 'MHCII']")
  \o If(row["gene"] \notin allowed_genes, "TCR gene type should be in ['TRA', 'TRB']")
  \o If(row["species"] \notin allowed_species,
        "Species should be in ['HomoSapiens', 'MusMusculus', 'RattusNorvegicus', 'MacacaMulatta']")

\* Lines 66-87: the messages of one row.
row_messages(index, row) ==
  If(~record_id_pattern(index), "Bad record identifier")
  \o If(~complex_id_pattern(row["complex.id"]), "Bad complex identifier")
  \o If(~aa_pattern(row["cdr3"]), "Bad CDR3 sequence")
  \o If(row["antigen"] # <<>> /\ ~aa_pattern(row["antigen"]), "Bad antigen sequence")
  \o If(row["mhc.type"] \notin allowed_mhcs, "MHC type should be in ['MHCI', 'MHCII']")
  \o If(row["gene"] \notin allowed_genes, "TCR gene type should be in ['TRA', 'TRB']")
  \o If(row["species"] \notin allowed_species,
        "Species should be in ['HomoSapiens', 'MusMusculus', 'RattusNorvegicus', 'MacacaMulatta']")

\* A comparison that leaves the last consistency column out.
unmatched_cols_short(rows) ==
  SelectSeq(SubSeq(complex_match_cols, 1, Len(complex_match_cols) - 1),
            LAMBDA col_name : rows[1].row[col_name] # rows[2].row[col_name])

\* Line 113: rows[0] and rows[1] are the first two rows of the group.
unmatched_cols(rows) ==
  SelectSeq(complex_match_cols, LAMBDA col_name : rows[1].row[col_name] # rows[2].row[col_name])

\* Line 105: the reserved id is skipped.
is_checked(key) == key # reserved_complex

\* Lines 106-116: the messages of one group of two or more rows.
complex_messages(rows) ==
  If(Len(rows) # 2, "Number of entries in complex should be 2")
  \o If(unmatched_cols(rows) # <<>>,
        <<"The following columns are not matching within complex entries", unmatched_cols(rows)>>)

\* A test that takes one canonical segment for enough.
resolvable_either(row) == row["good"] \/ row["v.canonical"] \/ row["j.canonical"]

\* Line 138: a row the fixer resolved.
resolvable(row) == row["good"] \/ (row["v.canonical"] /\ row["j.canonical"])

\* Lines 139-140: what is kept of an unresolved row.
diagnostics(r) == [index |-> r.index, row |-> [c \in Range(fix_columns) |-> r.row[c]]]

\* Lines 142-144.
overwrite(row) ==
  [row EXCEPT !["cdr3"] = row["fixed.cdr3"],
              !["v.segm"] = row["closest.v.id"],
              !["j.segm"] = row["closest.j.id"]]

(***************************************************************************)
(* The external fixer: it writes one row per row of the raw export, with   *)
(* the same record id and the same cells, and its own columns.             *)
(***************************************************************************)
Flags == [good : BOOLEAN, v : BOOLEAN, j : BOOLEAN]
AllGood == [good |-> TRUE, v |-> TRUE, j |-> TRUE]

\* Every row good, one row with any flags, or every row with the same flags.
FlagChoices(n) ==
  {[k \in 1..n |-> AllGood]}
  \cup {[k \in 1..n |-> IF k = at THEN f ELSE AllGood] : at \in 1..n, f \in Flags}
  \cup {[k \in 1..n |-> f] : f \in Flags}

FixedRow(r, f) ==
  [index |-> r.index,
   row |-> ("fixed.cdr3" :> (r.row["cdr3"] \o <<"F">>))
           @@ ("closest.v.id" :> <<"TRBV7-9*01">>)
           @@ ("closest.j.id" :> <<"TRBJ2-1*01">>)
           @@ ("v.canonical" :> f.v) @@ ("j.canonical" :> f.j) @@ ("good" :> f.good)
           @@ ("v.fix.type" :> <<"NoFixNeeded">>) @@ ("j.fix.type" :> <<"NoFixNeeded">>)
           @@ r.row]

FixerOutputs(raw) ==
  {[k \in DOMAIN raw |-> FixedRow(raw[k], flags[k])] : flags \in FlagChoices(Len(raw))}

(***************************************************************************)
(* The script.                                                             *)
(***************************************************************************)
Stages ==
  <<"merge", "duplicates", "records", "complexes", "raw_export", "fixer", "load",
    "reconcile", "final_export">>

\* What a message carries.
message(kind, detail) == [kind |-> kind, detail |-> detail]

\* An error that prints and returns instead of exiting.
error_returns(objs) ==
  /\ stderr' = objs
  /\ status' = status
  /\ pc' = pc

\* error(*objs): print to stderr and exit(1).
error(objs) ==
  /\ stderr' = objs
  /\ status' = "exit1"
  /\ pc' = "exited"

\* An exception nobody catches: the traceback goes to stderr and the script ends.
raise(exception) ==
  /\ stderr' = exception
  /\ status' = "exception"
  /\ pc' = "exited"

Init ==
  /\ FileInput(chunks) \/ RowInput(chunks)
  /\ pc = "merge"
  /\ file_i = 0
  /\ df = <<>>
  /\ bad_records = <<>>
  /\ groups = <<>>
  /\ group_i = 0
  /\ bad_complexes = <<>>
  /\ row_i = 0
  /\ unfixed_cdr3 = <<>>
  /\ fs = <<>>
  /\ stderr = <<>>
  /\ status = "running"
  /\ log = <<"merge">>

\* Lines 39-40.
MissingColumnsError ==
  /\ pc = "merge" /\ file_i < Len(chunks)
  /\ LET chunk == chunks[file_i + 1] IN
       /\ missing_cols(chunk) # <<>>
       /\ error(message("MissingColumns", <<chunk.file, missing_cols(chunk)>>))
  /\ UNCHANGED <<chunks, file_i, df, bad_records, groups, group_i, bad_complexes,
                 row_i, unfixed_cdr3, fs, log>>

\* Lines 42-43.
BadIndexError ==
  /\ pc = "merge" /\ file_i < Len(chunks)
  /\ LET chunk == chunks[file_i + 1] IN
       /\ missing_cols(chunk) = <<>>
       /\ chunk.index_name # index_column
       /\ error(message("BadIndexColumn", <<chunk.file>>))
  /\ UNCHANGED <<chunks, file_i, df, bad_records, groups, group_i, bad_complexes,
                 row_i, unfixed_cdr3, fs, log>>

\* Line 45, when append raises ValueError: the indexes have overlapping values.
AppendError ==
  /\ pc = "merge" /\ file_i < Len(chunks)
  /\ LET chunk == chunks[file_i + 1] IN
       /\ missing_cols(chunk) = <<>>
       /\ chunk.index_name = index_column
       /\ ~verify_integrity(append(df, read_chunk(chunk)))
       /\ raise(message("DuplicateKey", Overlap(append(df, read_chunk(chunk)))))
  /\ UNCHANGED <<chunks, file_i, df, bad_records, groups, group_i, bad_complexes,
                 row_i, unfixed_cdr3, fs, log>>

\* Line 45.
AppendChunk ==
  /\ pc = "merge" /\ file_i < Len(chunks)
  /\ LET chunk == chunks[file_i + 1] IN
       /\ missing_cols(chunk) = <<>>
       /\ chunk.index_name = index_column
       /\ verify_integrity(append(df, read_chunk(chunk)))
       /\ df' = append(df, read_chunk(chunk))
  /\ file_i' = file_i + 1
  /\ UNCHANGED <<chunks, pc, bad_records, groups, group_i, bad_complexes,
                 row_i, unfixed_cdr3, fs, stderr, status, log>>

\* Lines 49-52.
DuplicatesError ==
  /\ pc = "merge" /\ file_i = Len(chunks)
  /\ get_duplicates(df) # {}
  /\ error(message("DuplicateContent", get_duplicates(df)))
  /\ log' = Append(log, "duplicates")
  /\ UNCHANGED <<chunks, file_i, df, bad_records, groups, group_i, bad_complexes,
                 row_i, unfixed_cdr3, fs>>

\* Lines 49-63.
DuplicatesPass ==
  /\ pc = "merge" /\ file_i = Len(chunks)
  /\ get_duplicates(df) = {}
  /\ pc' = "records"
  /\ row_i' = 0
  /\ bad_records' = <<>>
  /\ log' = log \o <<"duplicates", "records">>
  /\ UNCHANGED <<chunks, file_i, df, groups, group_i, bad_complexes,
                 unfixed_cdr3, fs, stderr, status>>

\* Lines 65-90: one turn of the loop.
ValidateRow ==
  /\ pc = "records" /\ row_i < Len(df)
  /\ LET r == df[row_i + 1]
         messages == row_messages(r.index, r.row)
     IN bad_records' = IF messages # <<>> THEN Put(bad_records, r.index, messages)
                       ELSE bad_records
  /\ row_i' = row_i + 1
  /\ UNCHANGED <<chunks, pc, file_i, df, groups, group_i, bad_complexes,
                 unfixed_cdr3, fs, stderr, status, log>>

\* Lines 92-93.
RecordsError ==
  /\ pc = "records" /\ row_i = Len(df)
  /\ bad_records # <<>>
  /\ error(message("InvalidRecord", bad_records))
  /\ UNCHANGED <<chunks, file_i, df, bad_records, groups, group_i, bad_complexes,
                 row_i, unfixed_cdr3, fs, log>>

\* Lines 92-104.
RecordsPass ==
  /\ pc = "records" /\ row_i = Len(df)
  /\ bad_records = <<>>
  /\ pc' = "complexes"
  /\ groups' = group_keys(df)
  /\ group_i' = 0
  /\ bad_complexes' = <<>>
  /\ log' = Append(log, "complexes")
  /\ UNCHANGED <<chunks, file_i, df, bad_records, row_i, unfixed_cdr3, fs, stderr, status>>

\* Line 105, for the reserved id.
SkipReserved ==
  /\ pc = "complexes" /\ group_i < Len(groups)
  /\ ~is_checked(groups[group_i + 1])
  /\ group_i' = group_i + 1
  /\ UNCHANGED <<chunks, pc, file_i, df, bad_records, groups, bad_complexes,
                 row_i, unfixed_cdr3, fs, stderr, status, log>>

\* Lines 106-119, for a group of two or more rows.
CheckComplex ==
  /\ pc = "complexes" /\ group_i < Len(groups)
  /\ is_checked(groups[group_i + 1])
  /\ LET rows == group_rows(df, groups[group_i + 1]) IN
       /\ Len(rows) >= 2
       /\ bad_complexes' = IF complex_messages(rows) # <<>>
                           THEN Put(bad_complexes, groups[group_i + 1], complex_messages(rows))
                           ELSE bad_complexes
  /\ group_i' = group_i + 1
  /\ UNCHANGED <<chunks, pc, file_i, df, bad_records, groups,
                 row_i, unfixed_cdr3, fs, stderr, status, log>>

\* Line 113, for a group of one row: rows[1] raises IndexError.
ComplexIndexError ==
  /\ pc = "complexes" /\ group_i < Len(groups)
  /\ is_checked(groups[group_i + 1])
  /\ Len(group_rows(df, groups[group_i + 1])) < 2
  /\ raise(message("IndexError", <<groups[group_i + 1]>>))
  /\ UNCHANGED <<chunks, file_i, df, bad_records, groups, group_i, bad_complexes,
                 row_i, unfixed_cdr3, fs, log>>

\* Lines 121-122: the message prints bad_records.
ComplexesError ==
  /\ pc = "complexes" /\ group_i = Len(groups)
  /\ bad_complexes # <<>>
  /\ error(message("InvalidComplex", bad_records))
  /\ UNCHANGED <<chunks, file_i, df, bad_records, groups, group_i, bad_complexes,
                 row_i, unfixed_cdr3, fs, log>>

\* Lines 121-129.
ExportRaw ==
  /\ pc = "complexes" /\ group_i = Len(groups)
  /\ bad_complexes = <<>>
  /\ fs' = Put(fs, raw_txt, to_csv(df, required_columns))
  /\ pc' = "fixer"
  /\ log' = Append(log, "raw_export")
  /\ UNCHANGED <<chunks, file_i, df, bad_records, groups, group_i, bad_complexes,
                 row_i, unfixed_cdr3, stderr, status>>

\* Line 131, when the fixer exits with 0.
FixerSucceeds ==
  /\ pc = "fixer"
  /\ \E out \in FixerOutputs(fs[raw_txt]) : fs' = Put(fs, fixed_txt, out)
  /\ pc' = "load"
  /\ log' = Append(log, "fixer")
  /\ UNCHANGED <<chunks, file_i, df, bad_records, groups, group_i, bad_complexes,
                 row_i, unfixed_cdr3, stderr, status>>

\* Line 131, when check_call raises CalledProcessError.
FixerFails ==
  /\ pc = "fixer"
  /\ raise(message("CollaboratorFailure", <<>>))
  /\ log' = Append(log, "fixer")
  /\ UNCHANGED <<chunks, file_i, df, bad_records, groups, group_i, bad_complexes,
                 row_i, unfixed_cdr3, fs>>

\* Lines 133-135.
LoadFixed ==
  /\ pc = "load"
  /\ df' = read_table(fs[fixed_txt])
  /\ unfixed_cdr3' = <<>>
  /\ row_i' = 0
  /\ pc' = "reconcile"
  /\ log' = log \o <<"load", "reconcile">>
  /\ UNCHANGED <<chunks, file_i, bad_records, groups, group_i, bad_complexes,
                 fs, stderr, status>>

\* Lines 137-144: one turn of the loop.
ReconcileRow ==
  /\ pc = "reconcile" /\ row_i < Len(df)
  /\ LET r == df[row_i + 1] IN
       IF ~resolvable(r.row)
       THEN /\ unfixed_cdr3' = Append(unfixed_cdr3, diagnostics(r))
            /\ df' = df
       ELSE /\ df' = [df EXCEPT ![row_i + 1].row = overwrite(r.row)]
            /\ unfixed_cdr3' = unfixed_cdr3
  /\ row_i' = row_i + 1
  /\ UNCHANGED <<chunks, pc, file_i, bad_records, groups, group_i, bad_complexes,
                 fs, stderr, status, log>>

\* A script that never looks at the unresolved rows.
has_unfixed_ignored == FALSE

\* Line 146.
has_unfixed == unfixed_cdr3 # <<>>

\* Lines 146-147.
UnresolvedError ==
  /\ pc = "reconcile" /\ row_i = Len(df)
  /\ has_unfixed
  /\ error(message("UnresolvedSequences", unfixed_cdr3))
  /\ UNCHANGED <<chunks, file_i, df, bad_records, groups, group_i, bad_complexes,
                 row_i, unfixed_cdr3, fs, log>>

\* Lines 146-149, and the end of the script.
ExportFinal ==
  /\ pc = "reconcile" /\ row_i = Len(df)
  /\ ~has_unfixed
  /\ fs' = Put(fs, final_txt, to_csv(df, required_columns))
  /\ pc' = "exited"
  /\ status' = "exit0"
  /\ log' = Append(log, "final_export")
  /\ UNCHANGED <<chunks, file_i, df, bad_records, groups, group_i, bad_complexes,
                 row_i, unfixed_cdr3, stderr>>

Next ==
  \/ MissingColumnsError
  \/ BadIndexError
  \/ AppendError
  \/ AppendChunk
  \/ DuplicatesError
  \/ DuplicatesPass
  \/ ValidateRow
  \/ RecordsError
  \/ RecordsPass
  \/ SkipReserved
  \/ CheckComplex
  \/ ComplexIndexError
  \/ ComplexesError
  \/ ExportRaw
  \/ FixerSucceeds
  \/ FixerFails
  \/ LoadFixed
  \/ ReconcileRow
  \/ UnresolvedError
  \/ ExportFinal

Spec == Init /\ [][Next]_vars

(***************************************************************************)
(* What the properties below say about an input and a run.                 *)
(***************************************************************************)
RECURSIVE RowsOf(_, _)
\* The rows of the first n chunk files, in order.
RowsOf(files, n) ==
  IF n = 0 THEN <<>> ELSE RowsOf(files, n - 1) \o files[n].rows

InputRows == RowsOf(chunks, Len(chunks))
IdsOf(table) == [k \in DOMAIN table |-> table[k].index]

WellFormedFile(chunk) ==
  /\ Range(required_columns) \subseteq chunk.columns
  /\ chunk.index_name = "record.id"
AllFilesWellFormed == \A j \in DOMAIN chunks : WellFormedFile(chunks[j])

DistinctIds(table) ==
  \A a, b \in DOMAIN table : a # b => table[a].index # table[b].index

SameContent(r1, r2) == \A c \in Range(required_columns) : r1.row[c] = r2.row[c]
NoSameContent(table) ==
  \A a, b \in DOMAIN table : a # b => ~SameContent(table[a], table[b])

BreaksARule(r) ==
  \/ ~record_id_pattern(r.index)
  \/ ~complex_id_pattern(r.row["complex.id"])
  \/ ~aa_pattern(r.row["cdr3"])
  \/ r.row["antigen"] # <<>> /\ ~aa_pattern(r.row["antigen"])
  \/ r.row["mhc.type"] \notin {<<"MHCI">>, <<"MHCII">>}
  \/ r.row["gene"] \notin {<<"TRA">>, <<"TRB">>}
  \/ r.row["species"] \notin
       {<<"HomoSapiens">>, <<"MusMusculus">>, <<"RattusNorvegicus">>, <<"MacacaMulatta">>}
AllRowsWellFormed(table) == \A k \in DOMAIN table : ~BreaksARule(table[k])

ConsistencyColumns ==
  {"species", "mhc.a", "mhc.b", "mhc.type", "antigen", "antigen.gene",
   "antigen.species", "method", "reference", "reference.id"}
Members(table, id) == {k \in DOMAIN table : table[k].row["complex.id"] = id}
PairedIds(table) ==
  {table[k].row["complex.id"] : k \in DOMAIN table} \ {reserved_complex}
ConsistentPair(table, id) ==
  /\ Cardinality(Members(table, id)) = 2
  /\ \A a, b \in Members(table, id) :
       \A c \in ConsistencyColumns : table[a].row[c] = table[b].row[c]
AllComplexesConsistent(table) == \A id \in PairedIds(table) : ConsistentPair(table, id)

Ran(stage) == stage \in Range(log)
LastStage == log[Len(log)]
Ended == pc = "exited"
FailedWith(kind) == Ended /\ stderr # <<>> /\ stderr.kind = kind
FinalWritten == final_txt \in DOMAIN fs

IsPrefix(s, t) == Len(s) <= Len(t) /\ SubSeq(t, 1, Len(s)) = s

\* What the fixer said of row k of its output.
FixerMarkedResolvable(k) ==
  LET f == fs[fixed_txt][k].row
  IN f["good"] = TRUE \/ (f["v.canonical"] = TRUE /\ f["j.canonical"] = TRUE)

(***************************************************************************)
(* C1.  A run that ends in an error never writes the final export: the     *)
(* final export exists only when every file was well formed, no record id  *)
(* and no content occurred twice, every row and every complex passed       *)
(* validation, the fixer succeeded and no row was left unresolved.         *)
(***************************************************************************)
C1_NoFinalExportAfterError ==
  /\ (stderr # <<>> \/ status \in {"exit1", "exception"}) => ~FinalWritten
  /\ FinalWritten =>
       /\ status = "exit0" /\ stderr = <<>>
       /\ AllFilesWellFormed
       /\ DistinctIds(InputRows)
       /\ NoSameContent(InputRows)
       /\ AllRowsWellFormed(InputRows)
       /\ AllComplexesConsistent(InputRows)
       /\ fixed_txt \in DOMAIN fs
       /\ \A k \in DOMAIN fs[fixed_txt] : FixerMarkedResolvable(k)
       /\ unfixed_cdr3 = <<>>

\* A run the fixer served and that still ended with UnresolvedSequences.
C1_Witness ==
  /\ FailedWith("UnresolvedSequences")
  /\ raw_txt \in DOMAIN fs /\ fixed_txt \in DOMAIN fs
  /\ ~FinalWritten

(***************************************************************************)
(* C2, as stated: whenever the files are well formed, the record ids       *)
(* distinct and the rows well formed, the run completes and the final      *)
(* export holds exactly the record ids of the input.                       *)
(***************************************************************************)
C2_AsStated ==
  (Ended /\ AllFilesWellFormed /\ DistinctIds(InputRows) /\ AllRowsWellFormed(InputRows))
    => (FinalWritten /\ IdsOf(fs[final_txt]) = IdsOf(InputRows))

(***************************************************************************)
(* C2, amended: a run that completes wrote a final export with exactly one *)
(* row per input record id, in input order; and a run over well-formed     *)
(* files with distinct ids and well-formed rows completes when, besides,   *)
(* no two rows share their content, every complex is a consistent pair and *)
(* the fixer succeeds and resolves every row.                              *)
(***************************************************************************)
C2_FinalExportIsUnionOfInputs ==
  /\ FinalWritten =>
       /\ IdsOf(fs[final_txt]) = IdsOf(InputRows)
       /\ Len(fs[final_txt]) = Len(InputRows)
       /\ DistinctIds(fs[final_txt])
  /\ ( /\ Ended
       /\ AllFilesWellFormed /\ DistinctIds(InputRows) /\ AllRowsWellFormed(InputRows)
       /\ NoSameContent(InputRows) /\ AllComplexesConsistent(InputRows)
       /\ fixed_txt \in DOMAIN fs
       /\ \A k \in DOMAIN fs[fixed_txt] : FixerMarkedResolvable(k) )
     => FinalWritten

\* A completed run over two non-empty files.
C2_Witness ==
  /\ FinalWritten
  /\ Len(chunks) >= 2
  /\ \A j \in DOMAIN chunks : chunks[j].rows # <<>>
  /\ Len(fs[final_txt]) >= 3

(***************************************************************************)
(* C3.  The complex check passes exactly when every complex id other than  *)
(* the reserved one groups two rows that agree on the ten consistency      *)
(* columns; cdr3, v.segm, j.segm and gene may differ, and the reserved id  *)
(* is never reported.                                                      *)
(***************************************************************************)
ComplexCheckPassed == Ran("raw_export")
ComplexCheckFailed == Ended /\ LastStage = "complexes"

C3_ComplexCheckPassesIffConsistent ==
  /\ reserved_complex \notin DOMAIN bad_complexes
  /\ (pc = "fixer" => AllComplexesConsistent(df))
  /\ (ComplexCheckFailed => ~AllComplexesConsistent(df))
  /\ (ComplexCheckPassed => AllComplexesConsistent(InputRows))

\* The check passed a pair that differs in cdr3 and in gene, beside a
\* reserved-id row.
C3_Witness ==
  /\ pc = "fixer"
  /\ \E a, b \in DOMAIN df :
       /\ a # b
       /\ df[a].row["complex.id"] = df[b].row["complex.id"]
       /\ df[a].row["complex.id"] # reserved_complex
       /\ df[a].row["cdr3"] # df[b].row["cdr3"]
       /\ df[a].row["gene"] # df[b].row["gene"]
  /\ \E k \in DOMAIN df : df[k].row["complex.id"] = reserved_complex

(***************************************************************************)
(* C4.  When the complex check fails, every group was examined, the        *)
(* collector holds exactly the groups that are not consistent pairs, and   *)
(* the InvalidComplex message reports them.                                *)
(***************************************************************************)
C4_AllBadComplexesReported ==
  ComplexCheckFailed =>
    /\ group_i = Len(groups)
    /\ DOMAIN bad_complexes = {id \in PairedIds(df) : ~ConsistentPair(df, id)}
    /\ FailedWith("InvalidComplex")
    /\ stderr.detail = bad_complexes

(***************************************************************************)
(* C5.  The record loop visits every row; bad_records maps exactly the     *)
(* record ids of the rows that break a rule to all the rules they break;   *)
(* an empty antigen is never reported and an empty cdr3 always is; the run *)
(* fails with InvalidRecord exactly when the mapping is not empty.         *)
(***************************************************************************)
RecordLoopDone == Ran("records") /\ ~Ran("load") /\ (pc = "records" => row_i = Len(df))

Reports(id, text) == id \in DOMAIN bad_records /\ text \in Range(bad_records[id])

C5_BadRecordsIsExact ==
  /\ (Ran("records") /\ ~Ran("load")) =>
       \A k \in 1..Len(df) :
         (k <= row_i \/ pc # "records") =>
           LET r == df[k] IN
             /\ r.index \in DOMAIN bad_records <=> BreaksARule(r)
             /\ Reports(r.index, "Bad record identifier") <=> ~record_id_pattern(r.index)
             /\ Reports(r.index, "Bad complex identifier")
                  <=> ~complex_id_pattern(r.row["complex.id"])
             /\ Reports(r.index, "Bad CDR3 sequence") <=> ~aa_pattern(r.row["cdr3"])
             /\ Reports(r.index, "Bad antigen sequence")
                  <=> (r.row["antigen"] # <<>> /\ ~aa_pattern(r.row["antigen"]))
             /\ Reports(r.index, "MHC type should be in ['MHCI', 'MHCII']")
                  <=> r.row["mhc.type"] \notin {<<"MHCI">>, <<"MHCII">>}
             /\ Reports(r.index, "TCR gene type should be in ['TRA', 'TRB']")
                  <=> r.row["gene"] \notin {<<"TRA">>, <<"TRB">>}
             /\ Reports(r.index,
                  "Species should be in ['HomoSapiens', 'MusMusculus', 'RattusNorvegicus', 'MacacaMulatta']")
                  <=> r.row["species"] \notin
                        {<<"HomoSapiens">>, <<"MusMusculus">>,
                         <<"RattusNorvegicus">>, <<"MacacaMulatta">>}
             /\ r.row["antigen"] = <<>> => ~Reports(r.index, "Bad antigen sequence")
             /\ r.row["cdr3"] = <<>> => Reports(r.index, "Bad CDR3 sequence")
  /\ RecordLoopDone => DOMAIN bad_records \subseteq Range(IdsOf(df))
  /\ FailedWith("InvalidRecord") =>
       /\ row_i = Len(df) /\ bad_records # <<>> /\ stderr.detail = bad_records
  /\ (RecordLoopDone /\ pc # "records") =>
       (FailedWith("InvalidRecord") <=> bad_records # <<>>)

\* InvalidRecord after the whole table was visited: the first row breaks
\* every rule, the second has an empty cdr3 and the last row, with an empty
\* antigen or not, is sound.
C5_Witness ==
  /\ FailedWith("InvalidRecord")
  /\ Len(df) >= 3
  /\ DOMAIN bad_records = {df[1].index, df[2].index}
  /\ Len(bad_records[df[1].index]) = 7
  /\ df[2].row["cdr3"] = <<>>

(***************************************************************************)
(* C6.  In reconciliation a row is resolved exactly when the fixer marked  *)
(* it good or marked both its segments canonical; a resolved row gets      *)
(* fixed.cdr3, closest.v.id and closest.j.id; every other row is kept as   *)
(* it was and collected; one collected row fails the run with              *)
(* UnresolvedSequences.                                                    *)
(***************************************************************************)
Unresolved == {k \in DOMAIN fs[fixed_txt] : ~FixerMarkedResolvable(k)}

C6_ReconciliationIsExact ==
  Ran("reconcile") =>
    /\ \A k \in 1..row_i :
         LET f == fs[fixed_txt][k].row IN
           IF FixerMarkedResolvable(k)
           THEN /\ df[k].row["cdr3"] = f["fixed.cdr3"]
                /\ df[k].row["v.segm"] = f["closest.v.id"]
                /\ df[k].row["j.segm"] = f["closest.j.id"]
                /\ df[k].index \notin Range(IdsOf(unfixed_cdr3))
           ELSE /\ df[k] = read_table(fs[fixed_txt])[k]
                /\ df[k].index \in Range(IdsOf(unfixed_cdr3))
    /\ Len(unfixed_cdr3) = Cardinality({k \in Unresolved : k <= row_i})
    /\ (Ended => row_i = Len(df))
    /\ (Ended => (FailedWith("UnresolvedSequences") <=> Unresolved # {}))
    /\ (Ended => (FinalWritten <=> Unresolved = {}))

\* One row with good=false, v.canonical=false, j.canonical=true fails a run
\* whose other rows were all resolved.
C6_Witness ==
  /\ FailedWith("UnresolvedSequences")
  /\ Len(df) >= 2
  /\ Cardinality(Unresolved) = 1
  /\ \E k \in Unresolved :
       LET f == fs[fixed_txt][k].row IN
         f["good"] = FALSE /\ f["v.canonical"] = FALSE /\ f["j.canonical"] = TRUE

(***************************************************************************)
(* C7, as stated: when the run ends with a schema error, every malformed   *)
(* chunk file has been reported.                                           *)
(***************************************************************************)
SchemaError == FailedWith("MissingColumns") \/ FailedWith("BadIndexColumn")
Malformed == {j \in DOMAIN chunks : ~WellFormedFile(chunks[j])}

C7_AsStated ==
  SchemaError => \A j \in Malformed : chunks[j].file = stderr.detail[1]

(***************************************************************************)
(* C7, amended: the schema phase stops at the first malformed chunk file   *)
(* in processing order and reports that file alone: all its missing        *)
(* columns, or, when none is missing, its index column; the files before   *)
(* it were well formed and merged, the files after it are never read.      *)
(***************************************************************************)
C7_FirstMalformedChunkReported ==
  /\ SchemaError =>
       /\ file_i + 1 \in Malformed
       /\ \A j \in Malformed : file_i + 1 <= j
       /\ stderr.detail[1] = chunks[file_i + 1].file
       /\ df = RowsOf(chunks, file_i)
       /\ LastStage = "merge"
       /\ FailedWith("MissingColumns") <=>
            ~(Range(required_columns) \subseteq chunks[file_i + 1].columns)
       /\ FailedWith("MissingColumns") =>
            Range(stderr.detail[2]) = Range(required_columns) \ chunks[file_i + 1].columns
  /\ (Ran("duplicates") \/ FailedWith("DuplicateKey")) =>
       \A j \in Malformed : FailedWith("DuplicateKey") /\ file_i < j

\* Two malformed files, and only the first one is reported.
C7_Witness ==
  /\ SchemaError
  /\ Cardinality(Malformed) >= 2
  /\ \E j \in Malformed : chunks[j].file # stderr.detail[1]

(***************************************************************************)
(* C8, as stated: over well-formed files the run fails with DuplicateKey   *)
(* exactly when some record id is defined in two chunk files.              *)
(***************************************************************************)
InTwoChunks ==
  \E i, j \in DOMAIN chunks :
    /\ i # j
    /\ Range(IdsOf(chunks[i].rows)) \cap Range(IdsOf(chunks[j].rows)) # {}
MergeEnded == Ran("duplicates") \/ (Ended /\ LastStage = "merge")

C8_AsStated ==
  (AllFilesWellFormed /\ MergeEnded) => (FailedWith("DuplicateKey") <=> InTwoChunks)

(***************************************************************************)
(* C8, amended: over well-formed files, in whatever order they are read,   *)
(* the run fails with DuplicateKey exactly when some record id occurs      *)
(* twice among the rows of all files, be it in two files or twice in one;  *)
(* then no merged table goes on to the later phases, and otherwise the     *)
(* merged table holds the rows of all files.                               *)
(***************************************************************************)
C8_DuplicateKeyIffRepeatedId ==
  (AllFilesWellFormed /\ MergeEnded) =>
    /\ FailedWith("DuplicateKey") <=> ~DistinctIds(InputRows)
    /\ FailedWith("DuplicateKey") =>
         /\ ~Ran("duplicates") /\ fs = <<>>
         /\ stderr.detail \subseteq Range(IdsOf(InputRows))
         /\ stderr.detail # {}
    /\ (Ran("duplicates") /\ ~Ran("load")) => df = InputRows

\* DuplicateKey for an id that the second file repeats from the first.
C8_Witness ==
  /\ FailedWith("DuplicateKey")
  /\ file_i = 1
  /\ InTwoChunks
  /\ DistinctIds(chunks[1].rows) /\ DistinctIds(chunks[2].rows)

(***************************************************************************)
(* C9.  The run fails with DuplicateContent exactly when two rows of the   *)
(* merged table, under different record ids, agree on every required       *)
(* column; otherwise the table goes on to record validation unchanged.     *)
(***************************************************************************)
TwoRowsAlike(table) ==
  \E a, b \in DOMAIN table :
    /\ table[a].index # table[b].index
    /\ \A c \in Range(required_columns) : table[a].row[c] = table[b].row[c]

C9_DuplicateContentIffTwoRowsAlike ==
  (Ran("duplicates") /\ ~Ran("load")) =>
    /\ FailedWith("DuplicateContent") <=> TwoRowsAlike(df)
    /\ FailedWith("DuplicateContent") => (LastStage = "duplicates" /\ fs = <<>>)
    /\ ~TwoRowsAlike(df) => (Ran("records") /\ df = InputRows)

\* DuplicateContent in a table of three rows of which one is like no other.
C9_Witness ==
  /\ FailedWith("DuplicateContent")
  /\ Len(df) >= 3
  /\ \E k \in DOMAIN df : \A a \in DOMAIN df \ {k} : ~SameContent(df[k], df[a])

(***************************************************************************)
(* C10.  The stages run in source order, each at most once; a stage starts *)
(* only when every earlier one passed; a message on stderr ends the run;   *)
(* the fixer runs at most once, after the four validations passed and the  *)
(* raw export was written, and its failure is not retried; each export is  *)
(* written at most once.                                                   *)
(***************************************************************************)
Count(seq, x) == Cardinality({k \in DOMAIN seq : seq[k] = x})

C10_StagesInOrder ==
  /\ IsPrefix(log, Stages)
  /\ \A stage \in Range(Stages) : Count(log, stage) <= 1
  /\ stderr # <<>> => Ended
  /\ Ended <=> status # "running"
  /\ Ran("records") => (file_i = Len(chunks) /\ AllFilesWellFormed /\ DistinctIds(InputRows))
  /\ Ran("complexes") => (bad_records = <<>> /\ AllRowsWellFormed(InputRows))
  /\ Ran("raw_export") <=> raw_txt \in DOMAIN fs
  /\ Ran("raw_export") => (bad_complexes = <<>> /\ group_i = Len(groups))
  /\ Ran("fixer") =>
       /\ raw_txt \in DOMAIN fs
       /\ NoSameContent(InputRows) /\ AllComplexesConsistent(InputRows)
  /\ fixed_txt \in DOMAIN fs => Ran("fixer")
  /\ FailedWith("CollaboratorFailure") =>
       (LastStage = "fixer" /\ DOMAIN fs = {raw_txt})
  /\ Ran("load") => fixed_txt \in DOMAIN fs
  /\ Ran("final_export") <=> FinalWritten
  /\ FinalWritten => (Ended /\ log = Stages)

\* The fixer failed, once, and the run ended there.
C10_Witness ==
  /\ FailedWith("CollaboratorFailure")
  /\ log = SubSeq(Stages, 1, 6)
  /\ Len(df) >= 2

====
